---- MODULE Spec2Model ----
(***************************************************************************)
(* Model of the playback engine of sgr::player (src/player.hpp): the tempo *)
(* mapper (struct tempo), the piano roll scheduler and the mixer (class    *)
(* player).                                                                *)
(*                                                                         *)
(* Units.  Seconds and beats are doubles in the source.  The model uses    *)
(* exact integers: times and beats are whole units, volumes and samples    *)
(* are counted in 1/VolScale.  The timing                                  *)
(* segments are constant-tempo with an integer number of beats per time    *)
(* unit and notes sit on even beats, so every quotient below is exact.     *)
(***************************************************************************)
EXTENDS Integers, Sequences, FiniteSets, TLC

VARIABLES song, instructions, timings, now, global, roll, active, retired,
          sound_, outcome, overshot

vars == <<song, instructions, timings, now, global, roll, active, retired,
          sound_, outcome, overshot>>

----------------------------------------------------------------------------
(* Bounds of the model *)

MaxSegs == 3

MaxNotes == 2

MaxDt == 3

(* calls after end_of_song are followed up to this value of global.t *)
MaxTime == 6

(* 1.0 for volumes and samples *)
VolScale == 2

DtSet == 0..MaxDt

----------------------------------------------------------------------------
(* notation::timing segments (constant tempo): duration in beats and the   *)
(* seconds the segment covers.                                             *)

SegA == [duration |-> 4, full_time |-> 4]

SegB == [duration |-> 2, full_time |-> 1]

SegKinds == {SegA, SegB}

full_time(seg) == seg.full_time

time_to_beat(seg, t) == (t * seg.duration) \div seg.full_time

seg_beat_to_time(seg, beat) == (beat * seg.full_time) \div seg.duration

----------------------------------------------------------------------------
(* timing::time and the tempo mapper *)

time(t, dt, beat, dbeat) == [t |-> t, dt |-> dt, beat |-> beat, dbeat |-> dbeat]

tempo_ctor == [timings |-> <<>>, now |-> time(0, 0, 0, 0), global |-> time(0, 0, 0, 0)]

add_timing(tm, timing) == [tm EXCEPT !.timings = Append(@, timing)]

RECURSIVE add_timings(_, _)
add_timings(tm, ts) ==
    IF ts = <<>> THEN tm ELSE add_timings(add_timing(tm, Head(ts)), Tail(ts))

(* the comparison of line 78 made strict *)
segment_finished_strict(seg, t) == full_time(seg) < t

(* line 78: the front segment is finished *)
segment_finished(seg, t) == full_time(seg) <= t

(* lines 96-100: the beat of the local cursor and the two beat deltas *)
tempo_set_beat(tm, seg, old_beat) ==
    LET beat  == time_to_beat(seg, tm.now.t)
        dbeat == beat - old_beat
    IN  [tm EXCEPT !.now.beat = beat, !.now.dbeat = dbeat,
                   !.global.beat = @ + dbeat, !.global.dbeat = dbeat]

(* lines 71-75: both cursors take dt *)
tempo_add_dt(tm, dt) ==
    [tm EXCEPT !.global.t = @ + dt, !.global.dt = dt,
               !.now.t = @ + dt, !.now.dt = dt]

(* line 86 without the minus sign *)
carried_beat_unsigned(seg, old) == seg.duration - old.beat

(* lines 83 and 86: old.beat once the finished segment is left *)
carried_beat(seg, old) == -(seg.duration - old.beat)

(* lines 82-89: carry the rest of the finished segment over and pop it *)
(* the switch with now.t restarted at zero instead of line 85 *)
tempo_switch_reset(tm, old, dt) ==
    [tm EXCEPT !.now.t = 0, !.timings = Tail(@)]

tempo_switch(tm, old, dt) ==
    LET seg       == Head(tm.timings)
        rest_of_t == full_time(seg) - old.t
    IN  [tm EXCEPT !.now.t = dt - rest_of_t, !.timings = Tail(@)]

(* the test of line 90 taken one segment too early *)
queue_exhausted_early(ts) == Len(ts) <= 1

(* line 90: timings.size() == 0 *)
queue_exhausted(ts) == Len(ts) = 0

(* tempo::advance on a nonempty queue.  thrown is TRUE when the call ends  *)
(* with err::end_of_song; tm is the state the call leaves.                 *)
tempo_advance(tm, dt) ==
    LET old == tm.now
        t1  == tempo_add_dt(tm, dt)
        seg == Head(tm.timings)
    IN  IF segment_finished(seg, t1.now.t)
        THEN LET t2 == tempo_switch(t1, old, dt)
             IN  IF queue_exhausted(t2.timings)
                 THEN [thrown |-> TRUE, tm |-> t2]
                 ELSE [thrown |-> FALSE,
                       tm |-> tempo_set_beat(t2, Head(t2.timings),
                                             carried_beat(seg, old))]
        ELSE [thrown |-> FALSE, tm |-> tempo_set_beat(t1, seg, old.beat)]

(* the walk with line 118 made strict *)
RECURSIVE beat_walk_strict(_, _, _)
beat_walk_strict(ts, t, beat) ==
    IF ts = <<>>
    THEN [ok |-> FALSE, val |-> 0, beat_val |-> beat, reason |-> "Beat past end of song."]
    ELSE LET l == Head(ts)
         IN  IF beat < l.duration
             THEN [ok |-> TRUE, val |-> t + seg_beat_to_time(l, beat),
                   beat_val |-> beat, reason |-> ""]
             ELSE beat_walk_strict(Tail(ts), t + full_time(l), beat - l.duration)

(* the walk without line 121 *)
RECURSIVE beat_walk_no_carry(_, _, _)
beat_walk_no_carry(ts, t, beat) ==
    IF ts = <<>>
    THEN [ok |-> FALSE, val |-> 0, beat_val |-> beat, reason |-> "Beat past end of song."]
    ELSE LET l == Head(ts)
         IN  IF beat <= l.duration
             THEN [ok |-> TRUE, val |-> t + seg_beat_to_time(l, beat),
                   beat_val |-> beat, reason |-> ""]
             ELSE beat_walk_no_carry(Tail(ts), t, beat - l.duration)

(* tempo::beat_to_time: the walk over the queue, beat already translated   *)
RECURSIVE beat_walk(_, _, _)
beat_walk(ts, t, beat) ==
    IF ts = <<>>
    THEN [ok |-> FALSE, val |-> 0, beat_val |-> beat, reason |-> "Beat past end of song."]
    ELSE LET l == Head(ts)
         IN  IF beat <= l.duration
             THEN [ok |-> TRUE, val |-> t + seg_beat_to_time(l, beat),
                   beat_val |-> beat, reason |-> ""]
             ELSE beat_walk(Tail(ts), t + full_time(l), beat - l.duration)

(* beat_to_time with the test of line 110 made non-strict *)
beat_to_time_strict(tm, beat) ==
    IF beat <= tm.global.beat
    THEN [ok |-> FALSE, val |-> 0, beat_val |-> beat, reason |-> "Beat in the past."]
    ELSE beat_walk(tm.timings, tm.global.t, beat - (tm.global.beat - tm.now.beat))

(* tempo::beat_to_time: ok is FALSE when the call ends with                *)
(* err::invalid_beat, which then carries beat_val and reason               *)
beat_to_time(tm, beat) ==
    IF beat < tm.global.beat
    THEN [ok |-> FALSE, val |-> 0, beat_val |-> beat, reason |-> "Beat in the past."]
    ELSE beat_walk(tm.timings, tm.global.t, beat - (tm.global.beat - tm.now.beat))

tempo_get(tm) == tm.global

----------------------------------------------------------------------------
(* The song: notation::song, its notes and their descriptors *)

(* notation::volume::simple, left and right in [0,1] *)
simple(vol_left, vol_right) == [left |-> vol_left, right |-> vol_right]

Volumes == {simple(l, r) : l \in 0..VolScale, r \in 0..VolScale}

(* An instrument of constant level: the sign of each channel *)
Instruments == {[left |-> a, right |-> b] : a \in {-1, 0, 1}, b \in {-1, 0, 1}}

(* notation::note: the beat it starts on, its length in beats, its volume  *)
(* and its instrument                                                      *)
note(start, duration, volume, instrument) ==
    [start |-> start, duration |-> duration, volume |-> volume, instrument |-> instrument]

(* start and length of the notes, in beats *)
SchedShapes == {<<0, 4>>, <<2, 2>>, <<6, 2>>}

MixShapes == {<<0, 4>>}

Notes(shapes, vols, instrs) ==
    {note(sh[1], sh[2], v, i) : sh \in shapes, v \in vols, i \in instrs}

SeqsUpTo(S, n) == UNION {[1..k -> S] : k \in 0..n}

Songs(tims, shapes, vols, instrs) ==
    [timings : tims, notes : SeqsUpTo(Notes(shapes, vols, instrs), MaxNotes)]

(* Songs for the tempo mapper and the scheduler: every tempo map, every    *)
(* note at full volume on both channels.                                   *)
SchedSongs ==
    Songs(SeqsUpTo(SegKinds, MaxSegs) \ {<<>>}, SchedShapes,
          {simple(VolScale, VolScale)}, {[left |-> 1, right |-> 1]})

(* Songs for the mixer: one segment, notes of several volumes and levels   *)
MixVolumes == {simple(1, 0), simple(1, VolScale), simple(VolScale, VolScale)}

MixInstruments == {[left |-> 1, right |-> 1], [left |-> -1, right |-> 1]}

MixSongs == Songs({<<SegA>>}, MixShapes, MixVolumes, MixInstruments)

----------------------------------------------------------------------------
(* struct instruction *)

instruction(n, start_t, end_t) ==
    [volume     |-> n.volume,
     instrument |-> n.instrument,
     bounds     |-> [start |-> [t |-> start_t, beat |-> n.start],
                     end   |-> [t |-> end_t, beat |-> n.start + n.duration]]]

(* player::player, lines 171-173: the tempo after every add_timing *)
ctor_tempo(sg) == add_timings(tempo_ctor, sg.timings)

(* player::player, lines 175-177: the instruction pushed for note i *)
ctor_instruction(sg, i) ==
    LET instr == sg.notes[i]
        tm    == ctor_tempo(sg)
    IN  instruction(instr,
                    beat_to_time(tm, instr.start).val,
                    beat_to_time(tm, instr.start + instr.duration).val)

(* the constructor returns: no beat_to_time call throws invalid_beat *)
ctor_succeeds(sg) ==
    \A i \in 1..Len(sg.notes) :
        /\ beat_to_time(ctor_tempo(sg), sg.notes[i].start).ok
        /\ beat_to_time(ctor_tempo(sg), sg.notes[i].start + sg.notes[i].duration).ok

(* the instruction the constructor made from note i (lines 174-178), the  *)
(* object the roll and the active list point to                            *)
Instr(i) == instructions[i]

tempo_state == [timings |-> timings, now |-> now, global |-> global]

----------------------------------------------------------------------------
(* The piano roll: std::priority_queue ordered by ptrcmp *)

(* the comparison turned round *)
ptrcmp_reversed(a, b) == a.bounds.start.beat < b.bounds.start.beat

ptrcmp(a, b) == a.bounds.start.beat > b.bounds.start.beat

(* priority_queue::top: an element that ptrcmp puts after no other *)
roll_tops(r) == {i \in r : \A j \in r : ~ptrcmp(Instr(i), Instr(j))}

(* line 196 *)
is_due(top, t) == top.bounds.start.beat <= t.beat

(* line 206 *)
is_expired(p, t) == p.bounds.end.beat < t.beat

SeqRange(s) == {s[k] : k \in 1..Len(s)}

RECURSIVE append_all(_, _)
append_all(act, S) ==
    IF S = {} THEN act
    ELSE LET i == CHOOSE x \in S : TRUE IN append_all(Append(act, i), S \ {i})

(* the promotion step as a loop: every due instruction is moved *)
promote_all(r, act, t) ==
    LET due == {i \in r : is_due(Instr(i), t)}
    IN  {[roll |-> r \ due, active |-> append_all(act, due)]}

(* lines 194-200 without roll.pop() *)
promote_keep(r, act, t) ==
    IF r = {}
    THEN {[roll |-> r, active |-> act]}
    ELSE {IF is_due(Instr(top), t)
          THEN [roll |-> r, active |-> Append(act, top)]
          ELSE [roll |-> r, active |-> act] : top \in roll_tops(r)}

(* lines 194-200: the results of the promotion step *)
promote(r, act, t) ==
    IF r = {}
    THEN {[roll |-> r, active |-> act]}
    ELSE {IF is_due(Instr(top), t)
          THEN [roll |-> r \ {top}, active |-> Append(act, top)]
          ELSE [roll |-> r, active |-> act] : top \in roll_tops(r)}

(* lines 203-211 *)
retire(act, t) == SelectSeq(act, LAMBDA i : ~is_expired(Instr(i), t))

----------------------------------------------------------------------------
(* The mixer *)

Max(a, b) == IF a >= b THEN a ELSE b

Abs(a) == IF a >= 0 THEN a ELSE -a

RECURSIVE GCD(_, _)
GCD(a, b) == IF b = 0 THEN a ELSE GCD(b, a % b)

(* the quotient n / d, d > 0, as a fraction in lowest terms *)
Quot(n, d) == LET g == GCD(Abs(n), d) IN <<n \div g, d \div g>>

sample(l, r) == [left |-> l, right |-> r]

(* volume::get_volume of a simple volume *)
get_volume(p, t) == p.volume

(* instrument::get_sample of a constant-level instrument: each channel at  *)
(* plus or minus the louder of the two volumes, or silent                  *)
get_sample(p, t, vol) ==
    sample(p.instrument.left * Max(vol.left, vol.right),
           p.instrument.right * Max(vol.left, vol.right))

(* line 220 with the left volume only *)
peak_left(vol) == vol.left

(* line 220 *)
peak(vol) == Max(vol.right, vol.left)

(* lines 214-221: the sum of the samples and of the peak volumes.  The sum  *)
(* over the rest of the list is bound once and then added to.              *)
RECURSIVE mix(_, _)
mix(act, t) ==
    IF act = <<>>
    THEN [s |-> sample(0, 0), normalize |-> 0]
    ELSE LET p   == Instr(Head(act))
             vol == get_volume(p, t)
             smp == get_sample(p, t, vol)
         IN  CHOOSE m \in {[s |-> sample(smp.left + rest.s.left,
                                         smp.right + rest.s.right),
                            normalize |-> peak(vol) + rest.normalize] :
                               rest \in {mix(Tail(act), t)}} : TRUE

(* line 222 *)
norm_floor(normalize) == Max(normalize, VolScale)

(* lines 213-225: the mix m is bound once, then divided through *)
compute_sound(act, t) ==
    CHOOSE snd \in {sample(Quot(m.s.left, norm_floor(m.normalize)),
                           Quot(m.s.right, norm_floor(m.normalize))) :
                        m \in {mix(act, t)}} : TRUE

----------------------------------------------------------------------------
(* The engine *)

(* the state player::player leaves for a song it accepts *)
Construct(sg) ==
    /\ ctor_succeeds(sg)
    /\ song = sg
    /\ instructions = [i \in 1..Len(sg.notes) |-> ctor_instruction(sg, i)]
    /\ timings = ctor_tempo(sg).timings
    /\ now = ctor_tempo(sg).now
    /\ global = ctor_tempo(sg).global
    /\ roll = 1..Len(sg.notes)
    /\ active = <<>>
    /\ retired = {}
    /\ sound_ = sample(Quot(0, 1), Quot(0, 1))
    /\ outcome = "none"
    /\ overshot = FALSE

Init == \E sg \in SchedSongs \cup MixSongs : Construct(sg)

(* lines 191-225 with the removal loop run before the promotion *)
player_mix_retire_first(tm) ==
    LET t == tempo_get(tm)
    IN  \E pr \in promote(roll, retire(active, t), t) :
            /\ roll' = pr.roll
            /\ active' = pr.active
            /\ retired' = retired \cup (SeqRange(active) \ SeqRange(retire(active, t)))
            /\ sound_' = compute_sound(pr.active, t)

(* lines 191-225 with the sound computed before the removal loop *)
player_mix_sound_early(tm) ==
    LET t == tempo_get(tm)
    IN  \E pr \in promote(roll, active, t) :
            /\ roll' = pr.roll
            /\ active' = retire(pr.active, t)
            /\ retired' = retired \cup (SeqRange(pr.active) \ SeqRange(retire(pr.active, t)))
            /\ sound_' = compute_sound(pr.active, t)

(* player::advance, lines 191-225, once tempo::advance has returned tm *)
player_mix(tm) ==
    LET t == tempo_get(tm)
    IN  \E pr \in promote(roll, active, t) :
            /\ roll' = pr.roll
            /\ active' = retire(pr.active, t)
            /\ retired' = retired \cup (SeqRange(pr.active) \ SeqRange(retire(pr.active, t)))
            /\ sound_' = compute_sound(retire(pr.active, t), t)

(* the local cursor has run past the end of the front segment: the call    *)
(* covered more than one segment boundary                                  *)
past_front(tm) == tm.timings # <<>> /\ tm.now.t >= full_time(Head(tm.timings))

(* player::sound(), lines 232-235 *)
sound == sound_

(* a failing call that also clears the stored sample *)
advance_failed_cleared ==
    /\ sound_' = sample(Quot(0, 1), Quot(0, 1))
    /\ UNCHANGED <<roll, active, retired>>

(* line 190: end_of_song leaves player::advance before line 191 is reached *)
advance_failed == UNCHANGED <<roll, active, retired, sound_>>

(* player::advance(dt) on an engine that still has timing segments *)
Advance(dt) ==
    /\ timings # <<>>
    /\ LET r == tempo_advance(tempo_state, dt)
       IN  /\ timings' = r.tm.timings
           /\ now' = r.tm.now
           /\ global' = r.tm.global
           /\ overshot' = (overshot \/ past_front(r.tm))
           /\ IF r.thrown
              THEN /\ outcome' = "EndOfSong"
                   /\ advance_failed
              ELSE /\ outcome' = "ok"
                   /\ player_mix(r.tm)
    /\ UNCHANGED <<song, instructions>>

(* player::advance(dt) after end_of_song: line 77 reads front() of an      *)
(* empty list, which is undefined.  The call may end the process, may      *)
(* throw end_of_song again, or may go on with whatever segment the         *)
(* dangling reference yields and return in a state that means nothing.     *)
AdvanceAfterEnd(dt) ==
    /\ timings = <<>>
    /\ outcome = "EndOfSong"
    /\ global.t + dt <= MaxTime
    /\ UNCHANGED <<song, instructions, timings, overshot>>
    /\ \/ /\ outcome' \in {"crash", "EndOfSong"}
          /\ now' = tempo_add_dt(tempo_state, dt).now
          /\ global' = tempo_add_dt(tempo_state, dt).global
          /\ UNCHANGED <<roll, active, retired, sound_>>
       \/ \E garbage \in SegKinds :
             LET t1 == tempo_add_dt(tempo_state, dt)
                 tm == tempo_set_beat(t1, garbage, now.beat)
             IN  /\ ~segment_finished(garbage, t1.now.t)
                 /\ outcome' = "undefined"
                 /\ now' = tm.now
                 /\ global' = tm.global
                 /\ player_mix(tm)

Next == \E dt \in DtSet : Advance(dt) \/ AdvanceAfterEnd(dt)

Spec == Init /\ [][Next]_vars

(* The caller of the usage comment, lines 136-140: a loop that calls       *)
(* advance with one fixed dt (global.dt holds the dt of the last call).    *)
NextLoop ==
    \E dt \in DtSet :
        /\ outcome = "none" \/ dt = global.dt
        /\ Advance(dt) \/ AdvanceAfterEnd(dt)

SpecLoop == Init /\ [][NextLoop]_vars

(* the loop of the usage comment never stops calling *)
SpecLoopFair == SpecLoop /\ WF_vars(NextLoop)

TypeOK ==
    /\ outcome \in {"none", "ok", "EndOfSong", "crash", "undefined"}
    /\ roll \subseteq 1..Len(song.notes)

----------------------------------------------------------------------------
(* Properties *)

Silent == sound_ = sample(Quot(0, 1), Quot(0, 1))

(* a song of one segment and no notes, ticked with one dt > 0 that divides *)
(* the segment's full_time.  Every call adds dt to global.t (line 71), so  *)
(* call number n of the loop is the one that leaves global.t = n * dt.     *)
LoopCase ==
    /\ outcome # "none"
    /\ Len(song.timings) = 1
    /\ song.notes = <<>>
    /\ global.dt > 0
    /\ full_time(song.timings[1]) % global.dt = 0

LoopK == full_time(song.timings[1]) \div global.dt

LoopCalls == global.t \div global.dt

(* C1, as stated: with T = k*dt the first k calls succeed and leave        *)
(* sound() = (0, 0), and call k+1 fails with EndOfSong.                    *)
C1_Original ==
    LoopCase =>
        /\ LoopCalls <= LoopK => (outcome = "ok" /\ Silent)
        /\ LoopCalls = LoopK + 1 => outcome = "EndOfSong"

(* C1, amended: with T = k*dt the first k-1 calls succeed and leave        *)
(* sound() = (0, 0), and it is call k that fails with EndOfSong, sound()   *)
(* still (0, 0).                                                           *)
C1_LastTickFails ==
    LoopCase =>
        /\ LoopCalls < LoopK => (outcome = "ok" /\ Silent)
        /\ LoopCalls = LoopK => (outcome = "EndOfSong" /\ Silent)

C1_Witness == LoopCase /\ LoopK = 4 /\ LoopCalls = 4 /\ outcome = "EndOfSong"

(* C2: once a call has failed with EndOfSong, the next call fails with     *)
(* EndOfSong too.                                                          *)
C2_FailsForever == [][outcome = "EndOfSong" => outcome' = "EndOfSong"]_vars

(* C3: a call that fails with EndOfSong leaves the cursor of get() as it   *)
(* was before the call.                                                    *)
C3_CursorKept == [][outcome' = "EndOfSong" => global' = global]_vars

(* C4: while no call has covered more than one segment boundary, global.t  *)
(* and global.beat never decrease over a call that returns or throws, and  *)
(* both grow strictly over a successful call with dt > 0.                  *)
C4_Monotone ==
    [][(~overshot' /\ outcome' \in {"ok", "EndOfSong"}) =>
          /\ global'.t >= global.t
          /\ global'.beat >= global.beat
          /\ (outcome' = "ok" /\ global'.dt > 0) =>
                (global'.t > global.t /\ global'.beat > global.beat)]_vars

(* a successful tick with dt > 0 that has just crossed a segment boundary *)
C4_Witness ==
    /\ outcome = "ok"
    /\ ~overshot
    /\ global.dt > 0
    /\ Len(timings) < Len(song.timings)
    /\ now.t < now.dt

(* C5: after a successful advance no instruction still on the piano roll   *)
(* has bounds.start.beat <= global.beat.                                   *)
C5_AllDuePromoted ==
    outcome = "ok" =>
        \A i \in roll : ~(Instr(i).bounds.start.beat <= global.beat)

ActiveInWindow ==
    \A k \in 1..Len(active) :
        /\ Instr(active[k]).bounds.start.beat <= global.beat
        /\ global.beat <= Instr(active[k]).bounds.end.beat

(* C7, as stated: after every successful advance every active instruction  *)
(* has start.beat <= global.beat <= end.beat.                              *)
C7_Original == outcome = "ok" => ActiveInWindow

(* C7, amended: the same, as long as no call has covered more than one     *)
(* segment boundary.                                                       *)
C7_ActiveInWindow == (outcome = "ok" /\ ~overshot) => ActiveInWindow

(* an instruction is kept on the tick where global.beat equals its end *)
C7_Witness ==
    /\ outcome = "ok"
    /\ ~overshot
    /\ \E k \in 1..Len(active) : Instr(active[k]).bounds.end.beat = global.beat

NoteIds == 1..Len(song.notes)

Partition ==
    /\ roll \cap SeqRange(active) = {}
    /\ roll \cap retired = {}
    /\ SeqRange(active) \cap retired = {}
    /\ roll \cup SeqRange(active) \cup retired = NoteIds
    /\ Cardinality(roll) + Len(active) + Cardinality(retired) = Len(song.notes)

(* C8: pending, active and retired are disjoint and together hold every    *)
(* note exactly once; the roll never grows and a retired instruction       *)
(* stays retired.                                                          *)
C8_Partition ==
    [][/\ Partition
       /\ Partition'
       /\ roll' \subseteq roll
       /\ retired \subseteq retired']_vars

C8_Witness == active # <<>> /\ retired # {} /\ outcome = "ok"

(* C9: when the caller has ticked with dt > 0 until EndOfSong, every       *)
(* instruction has been promoted and retired.                              *)
C9_Lifecycle ==
    (outcome = "EndOfSong" /\ global.dt > 0) =>
        (roll = {} /\ active = <<>> /\ retired = NoteIds)

(* C10: after every successful advance both channels of sound() are        *)
(* within [-1, 1].                                                         *)
C10_UnitBound ==
    outcome = "ok" =>
        /\ Abs(sound_.left[1]) <= sound_.left[2]
        /\ Abs(sound_.right[1]) <= sound_.right[2]

(* two instructions sound and the left channel is at the bound *)
C10_Witness ==
    /\ outcome = "ok"
    /\ Len(active) >= 2
    /\ mix(active, global).normalize > VolScale
    /\ Abs(sound_.left[1]) = sound_.left[2]

----------------------------------------------------------------------------
(* The mixer's result and the beat-to-time map *)

RECURSIVE PeakSum(_)
PeakSum(ids) ==
    IF ids = <<>> THEN 0
    ELSE Max(Instr(Head(ids)).volume.left, Instr(Head(ids)).volume.right)
         + PeakSum(Tail(ids))

RECURSIVE SampleSum(_, _)
SampleSum(ids, t) ==
    IF ids = <<>> THEN sample(0, 0)
    ELSE LET p  == Instr(Head(ids))
             sp == get_sample(p, t, get_volume(p, t))
             r  == SampleSum(Tail(ids), t)
         IN  sample(sp.left + r.left, sp.right + r.right)

(* the fraction q = <<num, den>> equals n / d *)
IsQuotient(q, n, d) == q[2] > 0 /\ q[1] * d = n * q[2]

(* C11: the sample a successful advance stores is (S.left / N,             *)
(* S.right / N), S the sum of get_sample over the active list the tick     *)
(* leaves and N = max(1, sum of the peak volumes); an empty list gives     *)
(* (0, 0), and peaks that sum to at most 1 give S itself.                  *)
C11_StoredSample ==
    outcome = "ok" =>
        LET S == SampleSum(active, global)
            P == PeakSum(active)
            N == IF P > VolScale THEN P ELSE VolScale
        IN  /\ IsQuotient(sound_.left, S.left, N)
            /\ IsQuotient(sound_.right, S.right, N)
            /\ active = <<>> => Silent
            /\ P <= VolScale => /\ IsQuotient(sound_.left, S.left, VolScale)
                                /\ IsQuotient(sound_.right, S.right, VolScale)

(* one quiet instruction sounds: the sample is passed through unscaled *)
C11_Witness ==
    /\ outcome = "ok"
    /\ Len(active) = 1
    /\ PeakSum(active) < VolScale
    /\ ~Silent

RECURSIVE SumTime(_)
SumTime(ts) == IF ts = <<>> THEN 0 ELSE full_time(Head(ts)) + SumTime(Tail(ts))

RECURSIVE SumBeats(_)
SumBeats(ts) == IF ts = <<>> THEN 0 ELSE Head(ts).duration + SumBeats(Tail(ts))

TotalBeats == SumBeats(song.timings)

(* the segment of the song beat b falls in, a boundary beat counted to     *)
(* the earlier segment                                                     *)
SegmentOf(b) ==
    CHOOSE k \in 1..Len(song.timings) :
        /\ b <= SumBeats(SubSeq(song.timings, 1, k))
        /\ \A j \in 1..(k - 1) : b > SumBeats(SubSeq(song.timings, 1, j))

(* seconds from the start of the song to beat b *)
SongTime(b) ==
    LET k == SegmentOf(b)
    IN  SumTime(SubSeq(song.timings, 1, k - 1))
        + seg_beat_to_time(song.timings[k], b - SumBeats(SubSeq(song.timings, 1, k - 1)))

(* C12: before the first advance, beat_to_time(b) for 0 <= b <= total      *)
(* beats is the full_time of the segments wholly before b plus the time    *)
(* of the rest of b within its segment, a boundary beat resolved in the    *)
(* earlier segment.                                                        *)
C12_ConstructionTimes ==
    outcome = "none" =>
        \A b \in 0..TotalBeats :
            /\ beat_to_time(tempo_state, b).ok
            /\ beat_to_time(tempo_state, b).val = SongTime(b)

(* 4 beats in 4 units, then 4 beats in 2 units: beat 6 is at 5 units *)
C12_Witness ==
    /\ outcome = "none"
    /\ song.timings = <<SegA, SegB, SegB>>
    /\ beat_to_time(tempo_state, 6).val = 5
    /\ beat_to_time(tempo_state, 4).val = 4

(* C13: after successful advances, beat_to_time(b) for global.beat <= b    *)
(* <= total beats is the time of beat b from the beginning of the song.    *)
C13_SongRelative ==
    (outcome = "ok" /\ ~overshot) =>
        \A b \in global.beat..TotalBeats :
            /\ beat_to_time(tempo_state, b).ok
            /\ beat_to_time(tempo_state, b).val = SongTime(b)

(* the beats a caller may ask for, one past either end of the song *)
BeatProbes == (0 - 1)..(TotalBeats + 2)

(* C14: on a nonempty queue beat_to_time(b) fails with InvalidBeat         *)
(* exactly when b < global.beat (in the past) or b > total beats (past     *)
(* the end); b = global.beat and b = total beats return a value.           *)
C14_FailsExactly ==
    timings # <<>> =>
        \A b \in BeatProbes :
            LET r == beat_to_time(tempo_state, b)
            IN  /\ r.ok <=> (global.beat <= b /\ b <= TotalBeats)
                /\ b < global.beat => r.reason = "Beat in the past."
                /\ (global.beat <= b /\ b > TotalBeats) =>
                       r.reason = "Beat past end of song."

(* a segment has been popped and the cursor stands inside the song: the    *)
(* current beat and the last beat convert, their neighbours do not         *)
C14_Witness ==
    /\ outcome = "ok"
    /\ timings # <<>>
    /\ Len(timings) < Len(song.timings)
    /\ 0 < global.beat /\ global.beat < TotalBeats
    /\ beat_to_time(tempo_state, global.beat).ok
    /\ beat_to_time(tempo_state, TotalBeats).ok
    /\ ~beat_to_time(tempo_state, global.beat - 1).ok
    /\ ~beat_to_time(tempo_state, TotalBeats + 1).ok

(* C15: every InvalidBeat failure of beat_to_time carries the beat the     *)
(* caller passed, for a beat in the past and for a beat past the end.      *)
C15_CarriesCallerBeat ==
    timings # <<>> =>
        \A b \in BeatProbes :
            ~beat_to_time(tempo_state, b).ok =>
                beat_to_time(tempo_state, b).beat_val = b

(* C16: for b1 <= b2, both at or after global.beat and within the song,    *)
(* beat_to_time(b1) <= beat_to_time(b2), across segments and on their      *)
(* boundaries too.                                                         *)
C16_Monotone ==
    timings # <<>> =>
        \A b1, b2 \in global.beat..TotalBeats :
            b1 <= b2 =>
                /\ beat_to_time(tempo_state, b1).ok
                /\ beat_to_time(tempo_state, b2).ok
                /\ beat_to_time(tempo_state, b1).val
                       <= beat_to_time(tempo_state, b2).val

(* the cursor is inside the first of several segments after an advance:    *)
(* the beats asked for span a boundary                                     *)
C16_Witness ==
    /\ outcome = "ok"
    /\ Len(timings) >= 2
    /\ 0 < global.beat
    /\ now.beat < Head(timings).duration
    /\ beat_to_time(tempo_state, global.beat).val
           < beat_to_time(tempo_state, TotalBeats).val

(* the segments tempo::advance has popped so far *)
Popped == SubSeq(song.timings, 1, Len(song.timings) - Len(timings))

(* C17: after every successful advance of a run whose calls each stay      *)
(* within one boundary, global.t is the full_time of the popped segments   *)
(* plus now.t, global.beat their duration plus now.beat, and the local     *)
(* cursor lies inside the front segment.                                   *)
C17_CursorSums ==
    (outcome = "ok" /\ ~overshot) =>
        /\ global.t = SumTime(Popped) + now.t
        /\ global.beat = SumBeats(Popped) + now.beat
        /\ 0 <= now.t /\ now.t < full_time(Head(timings))
        /\ 0 <= now.beat /\ now.beat <= Head(timings).duration

(* a boundary was crossed with time left over in the new segment *)
C17_Witness ==
    /\ outcome = "ok" /\ ~overshot
    /\ Popped # <<>>
    /\ now.t > 0
    /\ now.beat > 0

(* C18: sound() is the sample stored by the most recent advance that       *)
(* returned; an advance that fails with EndOfSong leaves sound(), the      *)
(* piano roll and the active list as they were.                            *)
C18_FailureFrame ==
    [][ /\ outcome' \in {"ok", "undefined"} =>
               sound' = compute_sound(active', global')
        /\ outcome' = "EndOfSong" =>
               /\ sound' = sound
               /\ roll' = roll
               /\ active' = active ]_vars

(* the song ended with an instruction sounding and another one pending *)
C18_Witness ==
    /\ outcome = "EndOfSong"
    /\ active # <<>>
    /\ roll # {}
    /\ ~Silent

start_beat(i) == Instr(i).bounds.start.beat

(* C19: whatever the push order, an instruction that leaves the roll has   *)
(* a start beat no larger than that of any instruction still pending, and  *)
(* the active list stays in nondecreasing order of start beat.             *)
C19_RollOrder ==
    [][ /\ \A i \in roll \ roll' : \A j \in roll' : start_beat(i) <= start_beat(j)
        /\ \A k \in 1..(Len(active') - 1) :
               start_beat(active'[k]) <= start_beat(active'[k + 1]) ]_vars

(* the note pushed second starts first and was promoted first *)
C19_Witness ==
    /\ active = <<2, 1>>
    /\ start_beat(2) < start_beat(1)

IsSuffix(s, ts) == \E k \in 0..Len(ts) : s = SubSeq(ts, k + 1, Len(ts))

(* C20: a loop calling advance with one fixed dt > 0 eventually fails      *)
(* with EndOfSong; segments leave the queue from the front and never come  *)
(* back, and the failure is on the tick that pops the last segment.        *)
C20_Terminates ==
    /\ [](/\ IsSuffix(timings, song.timings)
          /\ outcome = "EndOfSong" => timings = <<>>
          /\ timings = <<>> => outcome \notin {"none", "ok"})
    /\ [](((outcome = "ok" /\ global.dt > 0) => <>(outcome = "EndOfSong")))

(* a song of several segments was played to its end by the loop *)
C20_Witness ==
    /\ outcome = "EndOfSong"
    /\ Len(song.timings) = 3
    /\ timings = <<>>
    /\ global.dt > 0
    /\ global.t > global.dt

====
